---------------------------- MODULE Spec2Model ----------------------------
(***************************************************************************)
(* The stdio service core of mnn_llm_stdio (LlmStdioCore): the line        *)
(* decoder, the streaming adapter, the session state and the service loop. *)
(* A std::string is a sequence of one-character strings; positions are     *)
(* 0-based as in the C++ code.                                             *)
(***************************************************************************)
EXTENDS Integers, Sequences, FiniteSets, TLC

(***************************************************************************)
(* Bounds of the model.                                                    *)
(***************************************************************************)
\* lines the service loop reads from stdin in one session
MaxRequests == 4
\* lines it reads in one session of a client that exercises the decoder
MaxDecodeRequests == 2
\* write calls the engine makes on its sink in one run
MaxWrites == 2

(***************************************************************************)
(* std::string                                                             *)
(***************************************************************************)
\* std::string::npos
npos == -1

\* the terminating character operator[] yields at position size()
NUL == "NUL"

QUOTE == "\""

BACKSLASH == "\\"

\* json_str[i], i <= size()
At(s, i) == IF i < Len(s) THEN s[i + 1] ELSE NUL

\* s.substr(pos, n), pos <= size()
substr(s, pos, n) == SubSeq(s, pos + 1, pos + n)

RECURSIVE find(_, _, _)
\* s.find(pat, from): the first position >= from where pat occurs, or npos
find(s, pat, from) ==
    IF from + Len(pat) > Len(s) THEN npos
    ELSE IF SubSeq(s, from + 1, from + Len(pat)) = pat THEN from
    ELSE find(s, pat, from + 1)

Digits == {"0", "1", "2", "3", "4", "5", "6", "7", "8", "9"}

\* std::isdigit
isdigit(c) == c \in Digits

DigitValue(c) ==
    CASE c = "0" -> 0 [] c = "1" -> 1 [] c = "2" -> 2 [] c = "3" -> 3
      [] c = "4" -> 4 [] c = "5" -> 5 [] c = "6" -> 6 [] c = "7" -> 7
      [] c = "8" -> 8 [] c = "9" -> 9

(***************************************************************************)
(* String literals of the source.                                          *)
(***************************************************************************)
S_type == <<"t", "y", "p", "e">>
S_id == <<"i", "d">>
S_prompt == <<"p", "r", "o", "m", "p", "t">>
S_content == <<"c", "o", "n", "t", "e", "n", "t">>
S_max_new_tokens == <<"m", "a", "x", "_", "n", "e", "w", "_", "t", "o", "k", "e", "n", "s">>
S_chat == <<"c", "h", "a", "t">>
S_status == <<"s", "t", "a", "t", "u", "s">>
S_system_prompt == <<"s", "y", "s", "t", "e", "m", "_", "p", "r", "o", "m", "p", "t">>
S_reset == <<"r", "e", "s", "e", "t">>
S_exit == <<"e", "x", "i", "t">>

(***************************************************************************)
(* Request Decoder                                                         *)
(***************************************************************************)
RECURSIVE SkipBlanks(_, _)
\* while (start_pos < size && (json_str[start_pos] == ' ' || == '\t')) start_pos++
SkipBlanks(json_str, start_pos) ==
    IF start_pos < Len(json_str) /\ At(json_str, start_pos) \in {" ", "\t"}
    THEN SkipBlanks(json_str, start_pos + 1)
    ELSE start_pos


\* a scan that takes the first quote after the opening one, escaped or not
ClosingQuote_anyQuote(json_str, end_pos) == end_pos

RECURSIVE ClosingQuote(_, _)
\* while (end_pos != npos && json_str[end_pos - 1] == '\\') end_pos = find('"', end_pos + 1)
ClosingQuote(json_str, end_pos) ==
    IF end_pos # npos /\ At(json_str, end_pos - 1) = BACKSLASH
    THEN ClosingQuote(json_str, find(json_str, <<QUOTE>>, end_pos + 1))
    ELSE end_pos

RECURSIVE BareEnd(_, _)
\* while (end_pos < size && json_str[end_pos] is none of , } ] space) end_pos++
BareEnd(json_str, end_pos) ==
    IF end_pos < Len(json_str) /\ At(json_str, end_pos) \notin {",", "}", "]", " "}
    THEN BareEnd(json_str, end_pos + 1)
    ELSE end_pos

\* the scan of a value that is not a closed quoted string
BareValue(json_str, start_pos) ==
    substr(json_str, start_pos, BareEnd(json_str, start_pos) - start_pos)

extractValue(json_str, key) ==
    LET key_pos == find(json_str, <<QUOTE>> \o key \o <<QUOTE>>, 0)
    IN  IF key_pos = npos THEN <<>>
        ELSE
        LET colon_pos == find(json_str, <<":">>, key_pos)
        IN  IF colon_pos = npos THEN <<>>
            ELSE
            LET start_pos == SkipBlanks(json_str, colon_pos + 1)
            IN  IF At(json_str, start_pos) = QUOTE
                THEN LET end_pos ==
                             ClosingQuote(json_str,
                                          find(json_str, <<QUOTE>>, start_pos + 1))
                     IN  IF end_pos # npos
                         THEN substr(json_str, start_pos + 1, end_pos - (start_pos + 1))
                         ELSE BareValue(json_str, start_pos + 1)
                ELSE BareValue(json_str, start_pos)


\* a decoder that takes the content of every request from its prompt field
parseRequest_promptForAll(request_str) ==
    LET type == extractValue(request_str, S_type)
    IN  [method |-> type,
         id |-> extractValue(request_str, S_id),
         content |-> extractValue(request_str, S_prompt),
         params |-> IF type = S_chat
                    THEN {<<S_max_new_tokens,
                            extractValue(request_str, S_max_new_tokens)>>}
                    ELSE {}]

\* Request: params is the unordered_map, here the set of its (key, value) pairs
parseRequest(request_str) ==
    LET type == extractValue(request_str, S_type)
    IN  [method |-> type,
         id |-> extractValue(request_str, S_id),
         content |-> IF type = S_chat THEN extractValue(request_str, S_prompt)
                     ELSE IF type = S_system_prompt
                          THEN extractValue(request_str, S_content)
                          ELSE <<>>,
         params |-> IF type = S_chat
                    THEN {<<S_max_new_tokens,
                            extractValue(request_str, S_max_new_tokens)>>}
                    ELSE {}]

(***************************************************************************)
(* Generation-length override (handleChatRequest, lines 289-314)           *)
(***************************************************************************)
\* INT_MAX of the int that std::stoi returns
INT_MAX == 2147483647

INT_MIN == (-INT_MAX) - 1

RECURSIVE AllDigitsFrom(_, _)
\* for (; i < str.size(); ++i) if (!isdigit(str[i])) { valid = false; break; }
AllDigitsFrom(str, i) ==
    IF i >= Len(str) THEN TRUE
    ELSE IF ~isdigit(At(str, i)) THEN FALSE
    ELSE AllDigitsFrom(str, i + 1)

RECURSIVE SkipSpace(_, _)
\* strtol skips leading white space
SkipSpace(str, i) ==
    IF i < Len(str) /\ At(str, i) \in {" ", "\t", "\n", "\r", "\f"}
    THEN SkipSpace(str, i + 1)
    ELSE i

RECURSIVE Magnitude(_, _, _)
\* the digits of str from position i on, accumulated in base 10; excess is 0
\* while the value fits an int, 1 when it is INT_MAX + 1, 2 when it is larger
Magnitude(str, i, acc) ==
    IF i >= Len(str) \/ ~isdigit(At(str, i)) THEN acc
    ELSE LET d == DigitValue(At(str, i))
         IN  Magnitude(str, i + 1,
                 IF acc.excess > 0 THEN [val |-> 0, excess |-> 2]
                 ELSE IF acc.val < INT_MAX \div 10
                         \/ (acc.val = INT_MAX \div 10 /\ d <= (INT_MAX % 10))
                      THEN [val |-> acc.val * 10 + d, excess |-> 0]
                 ELSE IF acc.val = INT_MAX \div 10 /\ d = (INT_MAX % 10) + 1
                      THEN [val |-> 0, excess |-> 1]
                 ELSE [val |-> 0, excess |-> 2])

\* std::stoi(str): the value, or the exception it throws
stoi(str) ==
    LET s0 == SkipSpace(str, 0)
        neg == At(str, s0) = "-"
        d0 == IF At(str, s0) \in {"+", "-"} THEN s0 + 1 ELSE s0
        m == Magnitude(str, d0, [val |-> 0, excess |-> 0])
    IN  IF ~isdigit(At(str, d0))
        THEN [thrown |-> "invalid_argument", value |-> 0]
        ELSE IF m.excess = 0
             THEN [thrown |-> "none", value |-> IF neg THEN -m.val ELSE m.val]
        ELSE IF m.excess = 1 /\ neg
             THEN [thrown |-> "none", value |-> INT_MIN]
        ELSE [thrown |-> "out_of_range", value |-> 0]

\* int max_new_tokens = -1
DefaultMaxNewTokens == -1

\* the value of params[key], or the empty string when the key is absent
ParamValue(params, key) ==
    IF \E kv \in params : kv[1] = key
    THEN (CHOOSE kv \in params : kv[1] = key)[2]
    ELSE <<>>

\* lines 290-314: the token budget the handler resolves, or the exception
\* that leaves the handler
ResolveMaxNewTokens(params) ==
    LET str == ParamValue(params, S_max_new_tokens)
        i == IF At(str, 0) \in {"+", "-"} THEN 1 ELSE 0
        valid == AllDigitsFrom(str, i)
    IN  IF (\E kv \in params : kv[1] = S_max_new_tokens) /\ str # <<>>
        THEN IF valid /\ str # <<>>
             THEN stoi(str)
             ELSE [thrown |-> "none", value |-> DefaultMaxNewTokens]
        ELSE [thrown |-> "none", value |-> DefaultMaxNewTokens]

(***************************************************************************)
(* Message Encoder                                                         *)
(***************************************************************************)
\* bytes that have no one-character TLA+ string: NUL (above), backspace,
\* escape, delete, and bytes above 0x7F: 0x80, 0xE6 (the first byte of a
\* UTF-8 encoded CJK character), 0xFF
BS == "BS"

ESC == "ESC"

DEL == "DEL"

x80 == "x80"

xE6 == "xE6"

xFF == "xFF"

NamedBytes == {NUL, BS, ESC, DEL, x80, xE6, xFF}

\* static_cast<unsigned char>(c) of a named byte
ByteValue(c) ==
    CASE c = NUL -> 0
      [] c = BS  -> 8
      [] c = ESC -> 27
      [] c = DEL -> 127
      [] c = x80 -> 128
      [] c = xE6 -> 230
      [] c = xFF -> 255

\* the value of the char c where char is signed (x86) or unsigned (ARM)
CharValue(c, char_is_signed) ==
    IF char_is_signed /\ ByteValue(c) > 127
    THEN ByteValue(c) - 256
    ELSE ByteValue(c)

HexDigit(d) ==
    <<"0", "1", "2", "3", "4", "5", "6", "7",
      "8", "9", "A", "B", "C", "D", "E", "F">>[d + 1]

\* sprintf(hex, "%04X", static_cast<unsigned char>(c))
Hex4(c) ==
    LET v == ByteValue(c)
    IN  <<HexDigit(v \div 4096), HexDigit((v \div 256) % 16),
          HexDigit((v \div 16) % 16), HexDigit(v % 16)>>

\* c < ' ' || c > 127, for a byte not matched by a case label; a
\* one-character string other than the case labels is a printable ASCII
\* character, 0x20..0x7E
NeedsHexEscapeAs(c, char_is_signed) ==
    /\ c \in NamedBytes
    /\ \/ CharValue(c, char_is_signed) < 32
       \/ CharValue(c, char_is_signed) > 127

\* the build for x86-64, where char is signed
NeedsHexEscape(c) == NeedsHexEscapeAs(c, TRUE)



\* a switch whose default case writes every byte as it is
EscapeChar_noHex(c) ==
    CASE c = QUOTE -> <<BACKSLASH, QUOTE>>
      [] c = BACKSLASH -> <<BACKSLASH, BACKSLASH>>
      [] c = BS -> <<BACKSLASH, "b">>
      [] c = "\f" -> <<BACKSLASH, "f">>
      [] c = "\n" -> <<BACKSLASH, "n">>
      [] c = "\r" -> <<BACKSLASH, "r">>
      [] c = "\t" -> <<BACKSLASH, "t">>
      [] OTHER -> <<c>>

\* a switch without the case of the backslash
EscapeChar_backslashRaw(c) ==
    CASE c = QUOTE -> <<BACKSLASH, QUOTE>>
      [] c = BS -> <<BACKSLASH, "b">>
      [] c = "\f" -> <<BACKSLASH, "f">>
      [] c = "\n" -> <<BACKSLASH, "n">>
      [] c = "\r" -> <<BACKSLASH, "r">>
      [] c = "\t" -> <<BACKSLASH, "t">>
      [] OTHER -> IF NeedsHexEscape(c)
                  THEN <<BACKSLASH, "u">> \o Hex4(c)
                  ELSE <<c>>

\* the switch of escapeJsonString, one input byte
EscapeChar(c) ==
    CASE c = QUOTE -> <<BACKSLASH, QUOTE>>
      [] c = BACKSLASH -> <<BACKSLASH, BACKSLASH>>
      [] c = BS -> <<BACKSLASH, "b">>
      [] c = "\f" -> <<BACKSLASH, "f">>
      [] c = "\n" -> <<BACKSLASH, "n">>
      [] c = "\r" -> <<BACKSLASH, "r">>
      [] c = "\t" -> <<BACKSLASH, "t">>
      [] OTHER -> IF NeedsHexEscape(c)
                  THEN <<BACKSLASH, "u">> \o Hex4(c)
                  ELSE <<c>>

RECURSIVE escapeJsonString(_)
escapeJsonString(input) ==
    IF input = <<>> THEN <<>>
    ELSE EscapeChar(Head(input)) \o escapeJsonString(Tail(input))

\* milliseconds since the epoch at encode time: the clock is not modelled
now_ms == <<"n", "o", "w", "_", "m", "s">>


\* an encoder that writes the message member also when message is empty
createStderrMessage_messageAlways(message_type, status, message, response_text, data) ==
    <<[key |-> "type", value |-> escapeJsonString(message_type)]>>
    \o (IF status # <<>>
        THEN <<[key |-> "status", value |-> escapeJsonString(status)]>>
        ELSE <<>>)
    \o <<[key |-> "message", value |-> escapeJsonString(message)]>>
    \o (IF response_text # <<>>
        THEN <<[key |-> "response", value |-> escapeJsonString(response_text)]>>
        ELSE <<>>)
    \o (IF data # <<>> THEN <<[key |-> "data", value |-> data]>> ELSE <<>>)
    \o <<[key |-> "timestamp", value |-> now_ms]>>

\* the envelope as the sequence of its (key, value) members, in output order
createStderrMessage(message_type, status, message, response_text, data) ==
    <<[key |-> "type", value |-> escapeJsonString(message_type)]>>
    \o (IF status # <<>>
        THEN <<[key |-> "status", value |-> escapeJsonString(status)]>>
        ELSE <<>>)
    \o (IF message # <<>>
        THEN <<[key |-> "message", value |-> escapeJsonString(message)]>>
        ELSE <<>>)
    \o (IF response_text # <<>>
        THEN <<[key |-> "response", value |-> escapeJsonString(response_text)]>>
        ELSE <<>>)
    \o (IF data # <<>> THEN <<[key |-> "data", value |-> data]>> ELSE <<>>)
    \o <<[key |-> "timestamp", value |-> now_ms]>>

\* one line written to std::cerr: an envelope, or plain text
EnvelopeLine(fields) == [fields |-> fields, text |-> <<>>]

TextLine(text) == [fields |-> <<>>, text |-> text]

\* the value of member key of an envelope line, or the empty string
Member(line, key) ==
    IF \E i \in 1..Len(line.fields) : line.fields[i].key = key
    THEN line.fields[CHOOSE i \in 1..Len(line.fields) : line.fields[i].key = key].value
    ELSE <<>>

S_error == <<"e", "r", "r", "o", "r">>
S_success == <<"s", "u", "c", "c", "e", "s", "s">>
S_message == <<"m", "e", "s", "s", "a", "g", "e">>
S_response == <<"r", "e", "s", "p", "o", "n", "s", "e">>
S_ready == <<"r", "e", "a", "d", "y">>
S_info == <<"i", "n", "f", "o">>

(***************************************************************************)
(* Streaming Output Adapter                                                *)
(* A StreamingBuffer is [out, started]: out is what std::cout has received,*)
(* one element per byte, each marker one element.                          *)
(***************************************************************************)
STREAM_START == "[LLM_STREAM_START]"

STREAM_END == "[LLM_STREAM_END]"

\* std::endl
endl == "\n"

\* startStream that never records that the stream has started
startStream_forgets(sb) ==
    IF ~sb.started
    THEN [out |-> sb.out \o <<STREAM_START, endl>>, started |-> FALSE]
    ELSE sb

startStream(sb) ==
    IF ~sb.started
    THEN [out |-> sb.out \o <<STREAM_START, endl>>, started |-> TRUE]
    ELSE sb

endStream(sb) ==
    IF sb.started
    THEN [out |-> sb.out \o <<STREAM_END, endl>>, started |-> FALSE]
    ELSE sb

\* StreamingBuffer::overflow(c), c != EOF
StreamingBuffer_overflow(sb, c) ==
    LET s1 == startStream(sb)
    IN  [s1 EXCEPT !.out = @ \o <<c>>]

\* xsputn without the test n > 0
StreamingBuffer_xsputn_unguarded(sb, s) ==
    LET s1 == startStream(sb)
    IN  [s1 EXCEPT !.out = @ \o s]

\* StreamingBuffer::xsputn(s, n), n = Len(s)
StreamingBuffer_xsputn(sb, s) ==
    IF Len(s) > 0
    THEN LET s1 == startStream(sb)
         IN  [s1 EXCEPT !.out = @ \o s]
    ELSE sb

\* CaptureBuffer::overflow(c), c != EOF
CaptureBuffer_overflow(output_, c) == Append(output_, c)


\* a capture that appends only the first byte of a block
CaptureBuffer_xsputn_firstByte(output_, s) ==
    IF s = <<>> THEN output_ ELSE Append(output_, Head(s))

\* CaptureBuffer::xsputn(s, n)
CaptureBuffer_xsputn(output_, s) == output_ \o s

(***************************************************************************)
(* Input lines (stdin)                                                     *)
(***************************************************************************)
Str(v) == <<QUOTE>> \o v \o <<QUOTE>>

Pair(k, v) == Str(k) \o <<":">> \o v

RECURSIVE Join(_)
Join(members) ==
    IF Len(members) = 0 THEN <<>>
    ELSE IF Len(members) = 1 THEN members[1]
    ELSE members[1] \o <<",">> \o Join(Tail(members))

Object(members) == <<"{">> \o Join(members) \o <<"}">>

P_hi == <<"h", "i">>

P_X == <<"X">>

\* {"type":"chat","id":"1","prompt":"hi"}
L_chat ==
    Object(<<Pair(S_type, Str(S_chat)), Pair(S_id, Str(<<"1">>)),
             Pair(S_prompt, Str(P_hi))>>)

\* {"type":"chat","id":"7","prompt":"hello \"world\""}
L_chat_escaped ==
    <<"{", "\"", "t", "y", "p", "e", "\"", ":", "\"", "c", "h", "a", "t", "\"", ",",
      "\"", "i", "d", "\"", ":", "\"", "7", "\"", ",",
      "\"", "p", "r", "o", "m", "p", "t", "\"", ":",
      "\"", "h", "e", "l", "l", "o", " ", "\\", "\"", "w", "o", "r", "l", "d",
      "\\", "\"", "\"", "}">>

\* {"type":"chat","prompt":"hi","max_new_tokens":v}
L_chat_tokens(v) ==
    Object(<<Pair(S_type, Str(S_chat)), Pair(S_prompt, Str(P_hi)),
             Pair(S_max_new_tokens, v)>>)

\* the override values sent: "128", "+50", 64, "-5", "12a", "", "-", "+",
\* "2147483647", "2147483648", "-2147483648", "99999999999"
OverrideValues ==
    {Str(<<"1", "2", "8">>), Str(<<"+", "5", "0">>), <<"6", "4">>,
     Str(<<"-", "5">>), Str(<<"1", "2", "a">>), Str(<<>>), Str(<<"-">>),
     Str(<<"+">>),
     Str(<<"2", "1", "4", "7", "4", "8", "3", "6", "4", "7">>),
     Str(<<"2", "1", "4", "7", "4", "8", "3", "6", "4", "8">>),
     Str(<<"-", "2", "1", "4", "7", "4", "8", "3", "6", "4", "8">>),
     Str(<<"9", "9", "9", "9", "9", "9", "9", "9", "9", "9", "9">>)}

\* {"type":"status"}
L_status == Object(<<Pair(S_type, Str(S_status))>>)

\* {"type":"system_prompt","content":"X"}
L_system_prompt ==
    Object(<<Pair(S_type, Str(S_system_prompt)), Pair(S_content, Str(P_X))>>)

\* {"type":"system_prompt","content":""}
L_system_prompt_empty ==
    Object(<<Pair(S_type, Str(S_system_prompt)), Pair(S_content, Str(<<>>))>>)

\* {"type":"reset"}
L_reset == Object(<<Pair(S_type, Str(S_reset))>>)

\* {"type":"exit"}
L_exit == Object(<<Pair(S_type, Str(S_exit))>>)

\* {"type":"frobnicate"}
L_frobnicate ==
    Object(<<Pair(S_type, Str(<<"f", "r", "o", "b", "n", "i", "c", "a", "t", "e">>))>>)

\* a line that is no object at all
L_malformed == <<"h", "e", "l", "l", "o">>

\* the lines a client sends in a session
SessionLines ==
    {L_chat, L_status, L_system_prompt, L_system_prompt_empty, L_reset, L_exit,
     L_frobnicate}

\* chat lines that carry a generation-length override
OverrideLines == {L_chat_tokens(v) : v \in OverrideValues}

\* {"type":"chat"}
L_chat_no_prompt == Object(<<Pair(S_type, Str(S_chat))>>)

\* {"type":"system_prompt","prompt":"X"}
L_system_prompt_in_prompt ==
    Object(<<Pair(S_type, Str(S_system_prompt)), Pair(S_prompt, Str(P_X))>>)

\* {"type":"status","prompt":"X","content":"X","max_new_tokens":"5"}
L_status_with_payload ==
    Object(<<Pair(S_type, Str(S_status)), Pair(S_prompt, Str(P_X)),
             Pair(S_content, Str(P_X)), Pair(S_max_new_tokens, Str(<<"5">>))>>)

Lines ==
    SessionLines \cup {L_chat_escaped, L_malformed} \cup OverrideLines
    \cup {L_chat_no_prompt, L_system_prompt_in_prompt, L_status_with_payload}

\* what the engine writes on its sink: single characters (sputc) and blocks (sputn)
GenChars == {"a"}

GenBlocks == {<<>>, <<"o", "k">>}

(***************************************************************************)
(* Diagnostic texts. The source's texts are Chinese; they are given here   *)
(* by ASCII renderings of the same meaning.                                *)
(***************************************************************************)
\* "无法创建LLM实例"
M_create_failed == <<"c", "r", "e", "a", "t", "e", " ", "f", "a", "i", "l", "e", "d">>

\* "加载模型失败"
M_load_failed == <<"l", "o", "a", "d", " ", "f", "a", "i", "l", "e", "d">>

\* "LLM已初始化并准备接收请求"
M_ready == <<"i", "n", "i", "t", "i", "a", "l", "i", "z", "e", "d">>

\* "系统提示词设置成功"
M_prompt_set == <<"p", "r", "o", "m", "p", "t", " ", "s", "e", "t">>

\* "系统提示词内容为空"
M_prompt_empty == <<"c", "o", "n", "t", "e", "n", "t", " ", "e", "m", "p", "t", "y">>

\* "模型已重置，对话历史已清空，系统提示词保留"
M_reset_done == <<"r", "e", "s", "e", "t", " ", "d", "o", "n", "e">>

\* "流式输出完成"
M_stream_done == <<"s", "t", "r", "e", "a", "m", " ", "d", "o", "n", "e">>

\* "完整响应已生成"
M_response_done == <<"r", "e", "s", "p", "o", "n", "s", "e", " ", "d", "o", "n", "e">>

\* "未知请求类型: "
M_unknown == <<"u", "n", "k", "n", "o", "w", "n", " ", "t", "y", "p", "e", ":", " ">>

\* main.cpp:14-16, the usage text
T_usage == <<"u", "s", "a", "g", "e">>

T_title == <<"t", "i", "t", "l", "e">>

T_channels == <<"c", "h", "a", "n", "n", "e", "l", "s">>

\* main.cpp:25, "错误: 无法初始化LLM核心服务"
T_init_failed == <<"i", "n", "i", "t", " ", "f", "a", "i", "l", "e", "d">>

S_status_colon == <<"s", "t", "a", "t", "u", "s", ":">>
S_prompt_len == <<",", "p", "r", "o", "m", "p", "t", "_", "l", "e", "n", ":">>
S_gen_seq_len == <<",", "g", "e", "n", "_", "s", "e", "q", "_", "l", "e", "n", ":">>
S_chat_history_count ==
    <<",", "c", "h", "a", "t", "_", "h", "i", "s", "t", "o", "r", "y", "_",
      "c", "o", "u", "n", "t", ":">>
S_processing == <<"p", "r", "o", "c", "e", "s", "s", "i", "n", "g">>
S_idle == <<"i", "d", "l", "e">>

DigitChar(d) ==
    CASE d = 0 -> "0" [] d = 1 -> "1" [] d = 2 -> "2" [] d = 3 -> "3"
      [] d = 4 -> "4" [] d = 5 -> "5" [] d = 6 -> "6" [] d = 7 -> "7"
      [] d = 8 -> "8" [] d = 9 -> "9"

RECURSIVE to_string(_)
\* std::to_string of a non-negative number
to_string(n) ==
    IF n < 10 THEN <<DigitChar(n)>>
    ELSE to_string(n \div 10) \o <<DigitChar(n % 10)>>

(***************************************************************************)
(* The diagnostic lines whose text does not depend on the state.           *)
(***************************************************************************)
\* line 40
CreateFailedLine ==
    EnvelopeLine(createStderrMessage(S_error, S_error, M_create_failed, <<>>, <<>>))

\* line 50
LoadFailedLine ==
    EnvelopeLine(createStderrMessage(S_error, S_error, M_load_failed, <<>>, <<>>))

\* line 62
ReadyLine ==
    EnvelopeLine(createStderrMessage(S_status, S_ready, M_ready, <<>>, <<>>))

\* line 270
PromptSetLine ==
    EnvelopeLine(createStderrMessage(S_message, S_success, M_prompt_set, <<>>, <<>>))

\* line 273
PromptEmptyLine ==
    EnvelopeLine(createStderrMessage(S_error, S_error, M_prompt_empty, <<>>, <<>>))

\* line 282
ResetDoneLine ==
    EnvelopeLine(createStderrMessage(S_message, S_success, M_reset_done, <<>>, <<>>))

\* line 385
StreamDoneLine ==
    EnvelopeLine(createStderrMessage(S_status, S_success, M_stream_done, <<>>, <<>>))

(***************************************************************************)
(* State                                                                   *)
(***************************************************************************)
VARIABLES
    pc,               \* where the process is: main, loop, getline, engine,
                      \* exited, terminated
    exit_code,        \* the value main returned, -1 while it has not
    m_running,
    m_processing,
    m_system_prompt,
    m_chat_history,
    m_llm,            \* the engine: what its calls received, its counters
    request,          \* run(): the line read
    req,              \* run(): the Request decoded from it
    started,          \* handleChatRequest: streaming_buffer.started
    full_response,    \* handleChatRequest: the capture string
    cout,
    cerr,
    nread,            \* lines read so far
    nwrites,          \* write calls the engine has made so far
    call,             \* a call of a function of the core on its own: the
                      \* function and its arguments
    ret               \* what that call returned

vars ==
    <<pc, exit_code, m_running, m_processing, m_system_prompt, m_chat_history,
      m_llm, request, req, started, full_response, cout, cerr, nread, nwrites,
      call, ret>>

\* a default-constructed Request
EmptyRequest == [method |-> <<>>, id |-> <<>>, content |-> <<>>, params |-> {}]

\* no function is called on its own
NoCall == [fn |-> "none", args |-> <<>>]

NoReturn == [returned |-> FALSE, value |-> <<>>]

unit == <<call, ret>>

\* LlmStdioCore::LlmStdioCore(), and main before it has run
ProcessInit ==
    /\ pc = "main"
    /\ exit_code = -1
    /\ m_running = FALSE
    /\ m_processing = FALSE
    /\ m_system_prompt = <<>>
    /\ m_chat_history = <<>>
    /\ m_llm = [created |-> FALSE, responses |-> 0, messages |-> <<>>,
                max_new_tokens |-> 0, resets |-> 0,
                prompt_len |-> 0, gen_seq_len |-> 0]
    /\ request = <<>>
    /\ req = EmptyRequest
    /\ started = FALSE
    /\ full_response = <<>>
    /\ cout = <<>>
    /\ cerr = <<>>
    /\ nread = 0
    /\ nwrites = 0

Init ==
    /\ ProcessInit
    /\ call = NoCall
    /\ ret = NoReturn

session == <<m_running, m_processing, m_system_prompt, m_chat_history>>

chat_locals == <<started, full_response>>

(***************************************************************************)
(* main and initialize                                                     *)
(***************************************************************************)
\* main.cpp:13-18, argc < 2
MainUsage ==
    /\ pc = "main"
    /\ cerr' = cerr \o <<TextLine(T_usage), TextLine(T_title), TextLine(T_channels)>>
    /\ exit_code' = 1
    /\ pc' = "exited"
    /\ UNCHANGED <<unit, session, m_llm, request, req, chat_locals, cout, nread, nwrites>>


\* a main that returns 0 after a failed initialize
InitializeFails_returnsZero ==
    /\ pc = "main"
    /\ \E created \in BOOLEAN :
          /\ m_llm' = [m_llm EXCEPT !.created = created]
          /\ cerr' = cerr \o
                <<IF created THEN LoadFailedLine ELSE CreateFailedLine,
                  TextLine(T_init_failed)>>
    /\ exit_code' = 0
    /\ pc' = "exited"
    /\ UNCHANGED <<unit, session, request, req, chat_locals, cout, nread, nwrites>>

\* initialize returns false: createLLM gave no engine, or load() failed;
\* main.cpp:24-27 then reports and returns 1
InitializeFails ==
    /\ pc = "main"
    /\ \E created \in BOOLEAN :
          /\ m_llm' = [m_llm EXCEPT !.created = created]
          /\ cerr' = cerr \o
                <<IF created THEN LoadFailedLine ELSE CreateFailedLine,
                  TextLine(T_init_failed)>>
    /\ exit_code' = 1
    /\ pc' = "exited"
    /\ UNCHANGED <<unit, session, request, req, chat_locals, cout, nread, nwrites>>

\* initialize returns true, main.cpp:29 calls run(), which sets m_running
InitializeOk ==
    /\ pc = "main"
    /\ m_llm' = [m_llm EXCEPT !.created = TRUE]
    /\ cerr' = Append(cerr, ReadyLine)
    /\ m_running' = TRUE
    /\ pc' = "loop"
    /\ UNCHANGED <<unit, exit_code, m_processing, m_system_prompt, m_chat_history,
                   request, req, chat_locals, cout, nread, nwrites>>

(***************************************************************************)
(* Handlers                                                                *)
(***************************************************************************)
\* a handler that stores the content before it tests it
handleSystemPromptRequest_storesEmpty ==
    /\ m_system_prompt' = req'.content
    /\ IF req'.content # <<>>
       THEN cerr' = Append(cerr, PromptSetLine)
       ELSE cerr' = Append(cerr, PromptEmptyLine)
    /\ pc' = "loop"
    /\ UNCHANGED <<unit, exit_code, m_running, m_processing, m_chat_history, m_llm,
                   chat_locals, cout, nwrites>>

handleSystemPromptRequest ==
    /\ IF req'.content # <<>>
       THEN /\ m_system_prompt' = req'.content
            /\ cerr' = Append(cerr, PromptSetLine)
       ELSE /\ m_system_prompt' = m_system_prompt
            /\ cerr' = Append(cerr, PromptEmptyLine)
    /\ pc' = "loop"
    /\ UNCHANGED <<unit, exit_code, m_running, m_processing, m_chat_history, m_llm,
                   chat_locals, cout, nwrites>>

\* a reset that also clears the system prompt
handleResetRequest_clearsPrompt ==
    /\ m_chat_history' = <<>>
    /\ m_system_prompt' = <<>>
    /\ m_llm' = [m_llm EXCEPT !.resets = @ + 1, !.prompt_len = 0, !.gen_seq_len = 0]
    /\ cerr' = Append(cerr, ResetDoneLine)
    /\ pc' = "loop"
    /\ UNCHANGED <<unit, exit_code, m_running, m_processing, chat_locals, cout, nwrites>>

handleResetRequest ==
    /\ m_chat_history' = <<>>
    /\ m_llm' = [m_llm EXCEPT !.resets = @ + 1, !.prompt_len = 0, !.gen_seq_len = 0]
    /\ cerr' = Append(cerr, ResetDoneLine)
    /\ pc' = "loop"
    /\ UNCHANGED <<unit, exit_code, m_running, m_processing, m_system_prompt,
                   chat_locals, cout, nwrites>>



\* a status handler that reports the exchanges, not the entries, of the
\* history
handleStatusRequest_countsExchanges ==
    LET status == IF m_processing THEN S_processing ELSE S_idle
        info == S_status_colon \o status
                \o S_prompt_len \o to_string(m_llm.prompt_len)
                \o S_gen_seq_len \o to_string(m_llm.gen_seq_len)
                \o S_chat_history_count \o to_string(Len(m_chat_history) \div 2)
    IN  /\ cerr' = Append(cerr, EnvelopeLine(createStderrMessage(
                       S_status, S_info, info, <<>>, <<>>)))
        /\ pc' = "loop"
        /\ UNCHANGED <<unit, exit_code, session, m_llm, chat_locals, cout, nwrites>>

\* a status handler that reports on the primary channel
handleStatusRequest_toStdout ==
    LET status == IF m_processing THEN S_processing ELSE S_idle
        info == S_status_colon \o status
                \o S_prompt_len \o to_string(m_llm.prompt_len)
                \o S_gen_seq_len \o to_string(m_llm.gen_seq_len)
                \o S_chat_history_count \o to_string(Len(m_chat_history))
    IN  /\ cout' = cout \o info \o <<endl>>
        /\ pc' = "loop"
        /\ UNCHANGED <<unit, exit_code, session, m_llm, chat_locals, cerr, nwrites>>

handleStatusRequest ==
    LET status == IF m_processing THEN S_processing ELSE S_idle
        info == S_status_colon \o status
                \o S_prompt_len \o to_string(m_llm.prompt_len)
                \o S_gen_seq_len \o to_string(m_llm.gen_seq_len)
                \o S_chat_history_count \o to_string(Len(m_chat_history))
    IN  /\ cerr' = Append(cerr, EnvelopeLine(createStderrMessage(
                       S_status, S_info, info, <<>>, <<>>)))
        /\ pc' = "loop"
        /\ UNCHANGED <<unit, exit_code, session, m_llm, chat_locals, cout, nwrites>>

\* an unknown method taken as the end of the session
handleUnknownRequest_stops ==
    /\ cerr' = Append(cerr, EnvelopeLine(createStderrMessage(
                   S_error, S_error, M_unknown \o req'.method, <<>>, <<>>)))
    /\ pc' = "exited"
    /\ exit_code' = 0
    /\ m_running' = FALSE
    /\ UNCHANGED <<unit, m_processing, m_system_prompt, m_chat_history, m_llm,
                   chat_locals, cout, nwrites>>

\* run(), lines 437-440
handleUnknownRequest ==
    /\ cerr' = Append(cerr, EnvelopeLine(createStderrMessage(
                   S_error, S_error, M_unknown \o req'.method, <<>>, <<>>)))
    /\ pc' = "loop"
    /\ UNCHANGED <<unit, exit_code, session, m_llm, chat_locals, cout, nwrites>>

\* a message list with the system message after the history
BuildMessages_systemLast(system_prompt, chat_history, content) ==
    chat_history
    \o (IF system_prompt # <<>> THEN <<<<"system", system_prompt>>>> ELSE <<>>)
    \o <<<<"user", content>>>>

\* lines 320-332: [system message if set] + history + [new user message]
BuildMessages(system_prompt, chat_history, content) ==
    (IF system_prompt # <<>> THEN <<<<"system", system_prompt>>>> ELSE <<>>)
    \o chat_history
    \o <<<<"user", content>>>>

\* handleChatRequest, lines 287-366: up to the call of m_llm->response. An
\* exception of std::stoi is caught nowhere: the process is terminated.
handleChatRequestCall ==
    LET r == ResolveMaxNewTokens(req'.params)
    IN  /\ m_processing' = TRUE
        /\ IF r.thrown # "none"
           THEN /\ pc' = "terminated"
                /\ UNCHANGED <<m_llm, chat_locals>>
           ELSE /\ started' = FALSE
                /\ full_response' = <<>>
                /\ m_llm' = [m_llm EXCEPT
                       !.responses = @ + 1,
                       !.messages = BuildMessages(m_system_prompt, m_chat_history,
                                                  req'.content),
                       !.max_new_tokens = r.value,
                       !.prompt_len = Len(m_chat_history) + 1,
                       !.gen_seq_len = 0]
                /\ pc' = "engine"
        /\ UNCHANGED <<unit, exit_code, m_running, m_system_prompt, m_chat_history,
                       cout, cerr, nwrites>>

\* the engine writes one character: TeeBuffer::overflow(c)
EngineSputc ==
    /\ pc = "engine"
    /\ nwrites < MaxWrites
    /\ \E c \in GenChars :
          LET sb == StreamingBuffer_overflow([out |-> cout, started |-> started], c)
          IN  /\ cout' = sb.out
              /\ started' = sb.started
              /\ full_response' = CaptureBuffer_overflow(full_response, c)
    /\ nwrites' = nwrites + 1
    /\ m_llm' = [m_llm EXCEPT !.gen_seq_len = @ + 1]
    /\ UNCHANGED <<unit, pc, exit_code, session, request, req, cerr, nread>>

\* the engine writes a block: TeeBuffer::xsputn(s, n)
EngineSputn ==
    /\ pc = "engine"
    /\ nwrites < MaxWrites
    /\ \E s \in GenBlocks :
          LET sb == StreamingBuffer_xsputn([out |-> cout, started |-> started], s)
          IN  /\ cout' = sb.out
              /\ started' = sb.started
              /\ full_response' = CaptureBuffer_xsputn(full_response, s)
    /\ nwrites' = nwrites + 1
    /\ m_llm' = [m_llm EXCEPT !.gen_seq_len = @ + 1]
    /\ UNCHANGED <<unit, pc, exit_code, session, request, req, cerr, nread>>

\* an exchange stored without its user turn
AppendExchange_assistantOnly(chat_history, content, response) ==
    chat_history \o << <<"assistant", response>> >>


\* an exchange stored with the assistant turn before the user turn
AppendExchange_assistantFirst(chat_history, content, response) ==
    chat_history \o << <<"assistant", response>>, <<"user", content>> >>

\* lines 380-382: the user turn, then the assistant turn
AppendExchange(chat_history, content, response) ==
    chat_history \o << <<"user", content>>, <<"assistant", response>> >>

\* handleChatRequest, lines 368-391: m_llm->response has returned
handleChatRequestReturn ==
    /\ pc = "engine"
    /\ LET sb == endStream([out |-> cout, started |-> started])
       IN  /\ cout' = sb.out
           /\ started' = sb.started
    /\ m_chat_history' = AppendExchange(m_chat_history, req.content, full_response)
    /\ cerr' = cerr \o
          <<StreamDoneLine,
            EnvelopeLine(createStderrMessage(S_response, S_success, M_response_done,
                                             full_response, <<>>))>>
    /\ m_processing' = FALSE
    /\ pc' = "loop"
    /\ UNCHANGED <<unit, exit_code, m_running, m_system_prompt, m_llm, request, req,
                   full_response, nread, nwrites>>

(***************************************************************************)
(* Service loop                                                            *)
(***************************************************************************)
\* while (m_running) { request.clear(); ... ; after the loop run() returns,
\* main returns 0 and ~LlmStdioCore() calls stop()
LoopTest ==
    /\ pc = "loop"
    /\ IF m_running
       THEN /\ pc' = "getline"
            /\ request' = <<>>
            /\ UNCHANGED <<exit_code, m_running>>
       ELSE /\ pc' = "exited"
            /\ exit_code' = 0
            /\ UNCHANGED <<request, m_running>>
    /\ UNCHANGED <<unit, m_processing, m_system_prompt, m_chat_history, m_llm, req,
                   chat_locals, cout, cerr, nread, nwrites>>

\* getline finds the end of input: break, run() returns, main returns 0 and
\* ~LlmStdioCore() calls stop()
EndOfInput ==
    /\ pc = "getline"
    /\ pc' = "exited"
    /\ exit_code' = 0
    /\ m_running' = FALSE
    /\ UNCHANGED <<unit, m_processing, m_system_prompt, m_chat_history, m_llm, request,
                   req, chat_locals, cout, cerr, nread, nwrites>>

KnownMethods == {S_chat, S_status, S_system_prompt, S_reset, S_exit}


\* an empty line taken for the end of input
EmptyLine_asEof(max) ==
    /\ pc = "getline"
    /\ nread < max
    /\ request' = <<>>
    /\ nread' = nread + 1
    /\ pc' = "exited"
    /\ exit_code' = 0
    /\ m_running' = FALSE
    /\ UNCHANGED <<unit, m_processing, m_system_prompt, m_chat_history, m_llm, req,
                   chat_locals, cout, cerr, nwrites>>

\* getline reads an empty line: continue
EmptyLine(max) ==
    /\ pc = "getline"
    /\ nread < max
    /\ request' = <<>>
    /\ nread' = nread + 1
    /\ pc' = "loop"
    /\ UNCHANGED <<unit, exit_code, session, m_llm, req, chat_locals, cout, cerr, nwrites>>

\* parseRequest of each line a client sends, computed once
Decoded == [line \in Lines |-> parseRequest(line)]

\* getline reads a non-empty line; Request req = parseRequest(request)
ReadRequest(line, max) ==
    /\ pc = "getline"
    /\ nread < max
    /\ line # <<>>
    /\ request' = line
    /\ nread' = nread + 1
    /\ req' = Decoded[line]

\* the branches of the dispatch, lines 427-440
ChatRequest(lines, max) ==
    \E line \in lines :
        ReadRequest(line, max) /\ req'.method = S_chat /\ handleChatRequestCall

StatusRequest(lines, max) ==
    \E line \in lines :
        ReadRequest(line, max) /\ req'.method = S_status /\ handleStatusRequest

SystemPromptRequest(lines, max) ==
    \E line \in lines :
        ReadRequest(line, max) /\ req'.method = S_system_prompt
                          /\ handleSystemPromptRequest

ResetRequest(lines, max) ==
    \E line \in lines :
        ReadRequest(line, max) /\ req'.method = S_reset /\ handleResetRequest


\* an exit request after which the loop goes on reading
ExitRequest_continues(lines, max) ==
    \E line \in lines :
        /\ ReadRequest(line, max)
        /\ req'.method = S_exit
        /\ pc' = "loop"
        /\ UNCHANGED <<unit, exit_code, session, m_llm, chat_locals, cout, cerr, nwrites>>

\* method == "exit": break, run() returns, main returns 0 and
\* ~LlmStdioCore() calls stop()
ExitRequest(lines, max) ==
    \E line \in lines :
        /\ ReadRequest(line, max)
        /\ req'.method = S_exit
        /\ pc' = "exited"
        /\ exit_code' = 0
        /\ m_running' = FALSE
        /\ UNCHANGED <<unit, m_processing, m_system_prompt, m_chat_history, m_llm,
                       chat_locals, cout, cerr, nwrites>>

UnknownRequest(lines, max) ==
    \E line \in lines :
        ReadRequest(line, max) /\ req'.method \notin KnownMethods /\ handleUnknownRequest

\* what the process does apart from reading a line
Run ==
    \/ MainUsage
    \/ InitializeFails
    \/ InitializeOk
    \/ LoopTest
    \/ EndOfInput
    \/ EngineSputc
    \/ EngineSputn
    \/ handleChatRequestReturn

Dispatch(lines, max) ==
    \/ ChatRequest(lines, max)
    \/ StatusRequest(lines, max)
    \/ SystemPromptRequest(lines, max)
    \/ ResetRequest(lines, max)
    \/ ExitRequest(lines, max)
    \/ UnknownRequest(lines, max)
    \/ EmptyLine(max)

\* a session of a client that sends no generation-length override
Next == Run \/ Dispatch(SessionLines, MaxRequests)

Spec == Init /\ [][Next]_vars

\* a session of a client that also sends escaped text and overrides
NextDecode == Run \/ Dispatch(Lines, MaxDecodeRequests)

SpecDecode == Init /\ [][NextDecode]_vars



\* the same session of a process that is never suspended for ever: the
\* program is one thread, each of its statements is executed once it is
\* reached, the engine's calls return and stdin comes to its end
FairSpecDecode == SpecDecode /\ WF_vars(NextDecode)

(***************************************************************************)
(* The return of handleChatRequest, statement by statement                 *)
(***************************************************************************)
\* lines a client sends in a session observed statement by statement
MaxStepRequests == 2

\* an endStream step that also marks the request as no longer processing
ChatEndStream_clearsProcessing ==
    /\ pc = "engine"
    /\ LET sb == endStream([out |-> cout, started |-> started])
       IN  /\ cout' = sb.out
           /\ started' = sb.started
    /\ m_processing' = FALSE
    /\ pc' = "chat_history"
    /\ UNCHANGED <<unit, exit_code, m_running, m_system_prompt, m_chat_history,
                   m_llm, request, req, full_response, cerr, nread, nwrites>>

\* lines 368-378: m_llm->response has returned; streaming_buffer.endStream()
ChatEndStream ==
    /\ pc = "engine"
    /\ LET sb == endStream([out |-> cout, started |-> started])
       IN  /\ cout' = sb.out
           /\ started' = sb.started
    /\ pc' = "chat_history"
    /\ UNCHANGED <<unit, exit_code, session, m_llm, request, req, full_response,
                   cerr, nread, nwrites>>

\* lines 380-382
ChatAppendHistory ==
    /\ pc = "chat_history"
    /\ m_chat_history' = AppendExchange(m_chat_history, req.content, full_response)
    /\ pc' = "chat_status"
    /\ UNCHANGED <<unit, exit_code, m_running, m_processing, m_system_prompt, m_llm,
                   request, req, chat_locals, cout, cerr, nread, nwrites>>

\* line 385
ChatStatusDiagnostic ==
    /\ pc = "chat_status"
    /\ cerr' = Append(cerr, StreamDoneLine)
    /\ pc' = "chat_response"
    /\ UNCHANGED <<unit, exit_code, session, m_llm, request, req, chat_locals, cout,
                   nread, nwrites>>

\* lines 388-389
ChatResponseDiagnostic ==
    /\ pc = "chat_response"
    /\ cerr' = Append(cerr, EnvelopeLine(createStderrMessage(
                   S_response, S_success, M_response_done, full_response, <<>>)))
    /\ pc' = "chat_idle"
    /\ UNCHANGED <<unit, exit_code, session, m_llm, request, req, chat_locals, cout,
                   nread, nwrites>>


\* a handler that returns without clearing the processing flag
ChatIdle_keepsProcessing ==
    /\ pc = "chat_idle"
    /\ m_processing' = m_processing
    /\ pc' = "loop"
    /\ UNCHANGED <<unit, exit_code, m_running, m_system_prompt, m_chat_history, m_llm,
                   request, req, chat_locals, cout, cerr, nread, nwrites>>

\* line 391
ChatIdle ==
    /\ pc = "chat_idle"
    /\ m_processing' = FALSE
    /\ pc' = "loop"
    /\ UNCHANGED <<unit, exit_code, m_running, m_system_prompt, m_chat_history, m_llm,
                   request, req, chat_locals, cout, cerr, nread, nwrites>>

\* the process with the return of the chat handler taken one statement at a
\* time
NextSteps ==
    \/ MainUsage
    \/ InitializeFails
    \/ InitializeOk
    \/ LoopTest
    \/ EndOfInput
    \/ EngineSputc
    \/ EngineSputn
    \/ ChatEndStream
    \/ ChatAppendHistory
    \/ ChatStatusDiagnostic
    \/ ChatResponseDiagnostic
    \/ ChatIdle
    \/ Dispatch(SessionLines, MaxStepRequests)

SpecSteps == Init /\ [][NextSteps]_vars



(***************************************************************************)
(* stop() called by another thread while run() is in its loop              *)
(***************************************************************************)
\* the positions of run() from its first loop test to its return
LoopActive ==
    pc \in {"loop", "getline", "engine", "chat_history", "chat_status",
            "chat_response", "chat_idle"}

\* a stop that ends the run at once, wherever the loop is
stop_preempts ==
    /\ LoopActive
    /\ m_running' = FALSE
    /\ pc' = "exited"
    /\ exit_code' = 0
    /\ UNCHANGED <<unit, m_processing, m_system_prompt, m_chat_history, m_llm,
                   request, req, chat_locals, cout, cerr, nread, nwrites>>

\* lines 444-446: m_running is a std::atomic<bool>, the store is one step of
\* the calling thread and touches nothing else
stop ==
    /\ LoopActive
    /\ m_running' = FALSE
    /\ UNCHANGED <<unit, pc, exit_code, m_processing, m_system_prompt, m_chat_history,
                   m_llm, request, req, chat_locals, cout, cerr, nread, nwrites>>

NextStop ==
    \/ NextSteps
    \/ stop

SpecStop == Init /\ [][NextStop]_vars

(***************************************************************************)
(* The functions of the core called on their own                           *)
(***************************************************************************)
\* length of the strings given to escapeJsonString
MaxEscapeLen == 2
\* tokens of the lines given to extractValue
MaxLineTokens == 4

\* the strings over the set S of length up to n
StringsUpTo(S, n) == UNION {[1..k -> S] : k \in 0..n}

\* bytes of every class the switch of escapeJsonString distinguishes
EscapeBytes ==
    {QUOTE, BACKSLASH, BS, "\f", "\n", "\r", "\t", NUL, ESC, DEL, x80, xE6, xFF,
     " ", "/", "0", "a", "n", "u"}

\* He said "hi"\nBye\ with \n the newline
T_example ==
    <<"H", "e", " ", "s", "a", "i", "d", " ", "\"", "h", "i", "\"", "\n",
      "B", "y", "e", "\\">>

EscapeInputs == StringsUpTo(EscapeBytes, MaxEscapeLen) \cup {T_example}

EscapeCalls == {[fn |-> "escapeJsonString", args |-> <<input>>] : input \in EscapeInputs}

T_data == <<"{", "}">>

MessageCalls ==
    {[fn |-> "createStderrMessage", args |-> <<t, s, m, r, d>>] :
        t \in {S_status, S_error}, s \in {<<>>, S_ready},
        m \in {<<>>, T_example}, r \in {<<>>, T_example}, d \in {<<>>, T_data}}

\* the pieces the lines given to extractValue are made of
LineTokens ==
    {Str(S_type), <<":">>, <<QUOTE>>, <<BACKSLASH>>, <<" ">>, <<",">>, <<"}">>, <<"a">>}

RECURSIVE Concat(_)
Concat(pieces) ==
    IF pieces = <<>> THEN <<>> ELSE Head(pieces) \o Concat(Tail(pieces))

\* lines with a quoted value, an escaped quote in the value, the key a second
\* time, the key first met inside a nested object and as the value of
\* another member, and values ended by each of the four terminators
ExampleLines ==
    {Concat(<<Str(S_type), <<":">>, Str(<<"a", "b">>)>>),
     Object(<<Pair(S_type, Str(<<"a", BACKSLASH, QUOTE, "b">>)), Pair(S_id, <<"1">>)>>),
     Object(<<Pair(S_type, Str(<<"a">>)), Pair(S_type, Str(<<"b">>))>>),
     Object(<<Pair(S_type, <<"a">>), Pair(S_type, <<"b">>)>>),
     Object(<<Pair(<<"d">>, Object(<<Pair(S_type, Str(<<"i", "n">>))>>)),
              Pair(S_type, Str(S_chat))>>),
     Object(<<Pair(S_id, Str(S_type)), Pair(<<"n">>, <<"1", "2">>),
              Pair(S_type, Str(S_chat))>>),
     Object(<<Pair(<<"l">>, <<"[">> \o Str(S_type) \o <<":", "\t", " ", "x", "y", "]">>)>>),
     Object(<<Pair(S_type, <<" ", "t", "r", "u", "e", " ">>), Pair(S_id, <<"1">>)>>),
     Object(<<Pair(S_type, <<"4", "2">>)>>)}

ExtractLines ==
    {Concat(pieces) : pieces \in StringsUpTo(LineTokens, MaxLineTokens)}
    \cup ExampleLines

ExtractCalls ==
    {[fn |-> "extractValue", args |-> <<line, S_type>>] : line \in ExtractLines}
    \cup {[fn |-> "extractValue", args |-> <<line, S_id>>] : line \in ExampleLines}

Calls == EscapeCalls \cup MessageCalls \cup ExtractCalls

process ==
    <<pc, exit_code, m_running, m_processing, m_system_prompt, m_chat_history,
      m_llm, request, req, started, full_response, cout, cerr, nread, nwrites>>

InitCalls ==
    /\ ProcessInit
    /\ call \in Calls
    /\ ret = NoReturn

CallEscapeJsonString ==
    /\ call.fn = "escapeJsonString"
    /\ ~ret.returned
    /\ ret' = [returned |-> TRUE, value |-> escapeJsonString(call.args[1])]
    /\ UNCHANGED <<call, process>>

CallCreateStderrMessage ==
    /\ call.fn = "createStderrMessage"
    /\ ~ret.returned
    /\ ret' = [returned |-> TRUE,
               value |-> createStderrMessage(call.args[1], call.args[2],
                             call.args[3], call.args[4], call.args[5])]
    /\ UNCHANGED <<call, process>>

CallExtractValue ==
    /\ call.fn = "extractValue"
    /\ ~ret.returned
    /\ ret' = [returned |-> TRUE,
               value |-> extractValue(call.args[1], call.args[2])]
    /\ UNCHANGED <<call, process>>

NextCalls ==
    \/ CallEscapeJsonString
    \/ CallCreateStderrMessage
    \/ CallExtractValue

SpecCalls == InitCalls /\ [][NextCalls]_vars

(***************************************************************************)
(* Vocabulary of the properties                                            *)
(***************************************************************************)
Last(s) == s[Len(s)]

RECURSIVE Count(_, _)
\* how many elements of s equal x
Count(s, x) ==
    IF s = <<>> THEN 0
    ELSE (IF Head(s) = x THEN 1 ELSE 0) + Count(Tail(s), x)

EndsWith(s, suffix) ==
    /\ Len(suffix) <= Len(s)
    /\ SubSeq(s, Len(s) - Len(suffix) + 1, Len(s)) = suffix

IsMarker(x) == x \in {STREAM_START, STREAM_END}

\* the markers on the primary channel, in the order written
Markers == SelectSeq(cout, IsMarker)

\* the loop is between two requests, or the process has returned from main
BetweenRequests == pc \in {"loop", "getline", "exited"}

(***************************************************************************)
(* C1. Stream markers of a chat request that generates text.               *)
(***************************************************************************)
\* C1: while the engine call of a chat request is running and has written at
\* least one byte, the primary channel ends with one START marker line
\* followed by exactly the bytes generated so far; once the handler has
\* completed, that text is followed by one END marker line. Over the whole
\* run the markers alternate START, END, START, ... and between requests
\* there are as many START as END markers.
C1_StreamMarkers ==
    /\ \A i \in 1..Len(Markers) :
          Markers[i] = IF i % 2 = 1 THEN STREAM_START ELSE STREAM_END
    /\ BetweenRequests => Count(cout, STREAM_START) = Count(cout, STREAM_END)
    /\ (pc = "engine" /\ full_response # <<>>) =>
          /\ EndsWith(cout, <<STREAM_START, endl>> \o full_response)
          /\ Count(cout, STREAM_START) = Count(cout, STREAM_END) + 1
    /\ (pc = "engine" /\ full_response = <<>>) =>
          Count(cout, STREAM_START) = Count(cout, STREAM_END)
    /\ (BetweenRequests /\ full_response # <<>>) =>
          EndsWith(cout, <<STREAM_START, endl>> \o full_response
                         \o <<STREAM_END, endl>>)

\* two chat requests have completed, each with generated text
C1_Witness ==
    /\ pc = "loop"
    /\ m_llm.responses = 2
    /\ Len(m_chat_history) = 4
    /\ m_chat_history[2][2] # <<>>
    /\ m_chat_history[4][2] # <<>>
    /\ Count(cout, STREAM_START) = 2
    /\ Count(cout, STREAM_END) = 2

(***************************************************************************)
(* C2. A chat request that generates nothing.                              *)
(***************************************************************************)
\* C2: no step of a chat request whose engine call has written zero bytes
\* changes the primary channel: neither marker is written.
C2_SilentWhenEmpty ==
    [][((pc = "engine" \/ pc' = "engine") /\ full_response' = <<>>)
          => (cout' = cout /\ started' = FALSE)]_vars

\* a chat request has completed whose engine call wrote one empty block
C2_Witness ==
    /\ pc = "loop"
    /\ m_llm.responses = 1
    /\ nwrites = 1
    /\ full_response = <<>>
    /\ Len(m_chat_history) = 2
    /\ cout = <<>>

\* the step reads a non-empty line and dispatches it as method
Dispatches(method) ==
    /\ pc = "getline"
    /\ request' # <<>>
    /\ req'.method = method

\* the step is the return of a chat handler
ChatCompletes == pc = "engine" /\ pc' = "loop"

(***************************************************************************)
(* C3. A completed chat appends one exchange to the history.               *)
(***************************************************************************)
\* C3: the step that completes a chat handler appends to chat_history exactly
\* two entries, (user, request content) then (assistant, captured response);
\* between requests chat_history has even length.
C3_HistoryGrowsByTwo ==
    /\ [][ChatCompletes =>
            /\ Len(m_chat_history') = Len(m_chat_history) + 2
            /\ SubSeq(m_chat_history', 1, Len(m_chat_history)) = m_chat_history
            /\ m_chat_history'[Len(m_chat_history) + 1] = <<"user", req.content>>
            /\ m_chat_history'[Len(m_chat_history) + 2] =
                  <<"assistant", full_response>>]_vars
    /\ [](BetweenRequests => Len(m_chat_history) % 2 = 0)

\* the second chat of a session has completed
C3_Witness ==
    /\ pc = "loop"
    /\ m_llm.responses = 2
    /\ m_chat_history =
          << <<"user", P_hi>>, <<"assistant", <<"a">>>>,
             <<"user", P_hi>>, <<"assistant", <<"o", "k">>>> >>

(***************************************************************************)
(* C4. reset clears the history and keeps the system prompt.               *)
(***************************************************************************)
\* C4: a reset request empties chat_history, calls the engine's reset once,
\* writes one diagnostic with status success and leaves system_prompt as it
\* was; a status request reports the current history length (0 after a
\* reset), and a chat request with a system prompt set passes
\* (system, system_prompt) to the engine as the first message.
C4_ResetKeepsSystemPrompt ==
    [][
        /\ Dispatches(S_reset) =>
              /\ m_chat_history' = <<>>
              /\ m_llm'.resets = m_llm.resets + 1
              /\ Len(cerr') = Len(cerr) + 1
              /\ Member(Last(cerr'), "status") = S_success
              /\ m_system_prompt' = m_system_prompt
        /\ Dispatches(S_status) =>
              /\ Len(cerr') = Len(cerr) + 1
              /\ EndsWith(Member(Last(cerr'), "message"),
                          S_chat_history_count \o to_string(Len(m_chat_history)))
        /\ (Dispatches(S_chat) /\ pc' = "engine" /\ m_system_prompt # <<>>) =>
              Head(m_llm'.messages) = <<"system", m_system_prompt>>
    ]_vars

\* system_prompt X, a chat, a reset, and the next chat has called the engine
C4_Witness ==
    /\ pc = "engine"
    /\ m_llm.resets = 1
    /\ m_llm.responses = 2
    /\ cout # <<>>
    /\ m_chat_history = <<>>
    /\ m_llm.messages = << <<"system", P_X>>, <<"user", P_hi>> >>

(***************************************************************************)
(* C5, C6. The generation-length override.                                 *)
(***************************************************************************)
\* str fully matches an optional sign followed by one or more decimal digits
SignedDigits(str) ==
    LET first == IF Len(str) > 0 /\ str[1] \in {"+", "-"} THEN 2 ELSE 1
    IN  /\ Len(str) >= first
        /\ \A i \in first..Len(str) : str[i] \in Digits

RECURSIVE SignedValue(_, _, _)
\* the decimal value of the digits of str from index i on, added to acc
\* with the given sign
SignedValue(str, i, acc) ==
    IF i > Len(str) THEN acc
    ELSE SignedValue(str, i + 1,
             IF str[1] = "-" THEN acc * 10 - DigitValue(str[i])
             ELSE acc * 10 + DigitValue(str[i]))

\* the decimal value of a string that matches SignedDigits
DecimalValue(str) ==
    SignedValue(str, IF str[1] \in {"+", "-"} THEN 2 ELSE 1, 0)

\* a chat request has been dispatched and its handler has not returned
ChatDispatched == pc \in {"engine", "terminated"}

\* the override string of the request being handled
Override == ParamValue(req.params, S_max_new_tokens)

\* C5: a chat request whose override string does not match SignedDigits has
\* the override ignored: its handler goes on to call the engine, with the
\* default budget, and the process is not terminated.
C5_MalformedOverrideIgnored ==
    (ChatDispatched /\ ~SignedDigits(Override)) =>
        /\ pc = "engine"
        /\ m_llm.max_new_tokens = DefaultMaxNewTokens

\* C6: a chat request whose override string matches SignedDigits, whatever its
\* length and value, has its handler call the engine with the decimal value
\* of the string as the token budget.
C6_OverrideIsBudget ==
    (ChatDispatched /\ SignedDigits(Override)) =>
        /\ pc = "engine"
        /\ m_llm.max_new_tokens = DecimalValue(Override)

(***************************************************************************)
(* C7. Escaped quotes in a quoted value.                                   *)
(***************************************************************************)
RECURSIVE JsonString(_, _)
\* the string denoted by the JSON string whose text starts at index i of
\* line, after the opening quote: a backslash stands for the character
\* that follows it
JsonString(line, i) ==
    IF i > Len(line) \/ line[i] = QUOTE THEN <<>>
    ELSE IF line[i] = BACKSLASH /\ i < Len(line)
         THEN <<line[i + 1]>> \o JsonString(line, i + 2)
    ELSE <<line[i]>> \o JsonString(line, i + 1)

\* the string that the value of "prompt":" denotes in line
PromptDenoted(line) ==
    LET key == Str(S_prompt) \o <<":", QUOTE>>
    IN  JsonString(line, find(line, key, 0) + Len(key) + 1)

\* hello "world"
P_hello_world ==
    <<"h", "e", "l", "l", "o", " ", "\"", "w", "o", "r", "l", "d", "\"">>

\* C7: the content decoded for a chat request is the string its quoted
\* prompt value denotes, escaped quotes un-escaped; the line
\* {"type":"chat","id":"7","prompt":"hello \"world\""} decodes to method
\* chat, id 7 and content hello "world".
C7_EscapedQuotesDecoded ==
    (pc = "engine" /\ find(request, Str(S_prompt) \o <<":", QUOTE>>, 0) # npos) =>
        /\ req.content = PromptDenoted(request)
        /\ request = L_chat_escaped =>
              /\ req.method = S_chat
              /\ req.id = <<"7">>
              /\ req.content = P_hello_world

(***************************************************************************)
(* C8. A line whose method is unknown.                                     *)
(***************************************************************************)
\* the step reads a non-empty line whose decoded method is none of chat,
\* status, system_prompt, reset, exit
DispatchesUnknown ==
    /\ pc = "getline"
    /\ request' # <<>>
    /\ req'.method \notin KnownMethods

\* C8: a non-empty line whose decoded method is unknown (the empty method of
\* a malformed line included) changes no session state and not the engine,
\* writes nothing to the primary channel, writes exactly one diagnostic,
\* with status error, and leaves the loop running at its top, where the
\* next line is read.
C8_UnknownMethod ==
    [][DispatchesUnknown =>
          /\ UNCHANGED <<m_system_prompt, m_chat_history, m_processing, m_running>>
          /\ m_running
          /\ UNCHANGED <<cout, m_llm>>
          /\ Len(cerr') = Len(cerr) + 1
          /\ SubSeq(cerr', 1, Len(cerr)) = cerr
          /\ Member(Last(cerr'), "type") = S_error
          /\ Member(Last(cerr'), "status") = S_error
          /\ pc' = "loop"]_vars

\* a malformed line was answered with the error diagnostic and the chat
\* request that followed it has been handled
C8_Witness ==
    /\ pc = "loop"
    /\ Len(cerr) = 4
    /\ Member(cerr[2], "status") = S_error
    /\ Member(cerr[2], "message") = M_unknown
    /\ Member(cerr[4], "type") = S_response
    /\ Len(m_chat_history) = 2

(***************************************************************************)
(* C9. system_prompt requests.                                             *)
(***************************************************************************)
\* C9: a system_prompt request with non-empty content sets system_prompt to
\* that content and writes one diagnostic with status success; one with
\* empty content writes one diagnostic with status error and leaves
\* system_prompt and chat_history unchanged; no other step changes
\* system_prompt.
C9_SystemPrompt ==
    [][
        /\ (Dispatches(S_system_prompt) /\ req'.content # <<>>) =>
              /\ m_system_prompt' = req'.content
              /\ Len(cerr') = Len(cerr) + 1
              /\ Member(Last(cerr'), "status") = S_success
        /\ (Dispatches(S_system_prompt) /\ req'.content = <<>>) =>
              /\ Len(cerr') = Len(cerr) + 1
              /\ Member(Last(cerr'), "status") = S_error
              /\ UNCHANGED <<m_system_prompt, m_chat_history>>
        /\ ~Dispatches(S_system_prompt) => UNCHANGED m_system_prompt
    ]_vars

\* the system prompt was set, and a later request with empty content was
\* answered with the error diagnostic
C9_Witness ==
    /\ pc = "loop"
    /\ m_system_prompt = P_X
    /\ Last(cerr) = PromptEmptyLine
    /\ req.method = S_system_prompt
    /\ req.content = <<>>

(***************************************************************************)
(* C10. The message list passed to the engine.                             *)
(***************************************************************************)
\* C10: while the engine call of a chat request runs, the message list it
\* received is (system, system_prompt) if system_prompt is non-empty, then
\* chat_history in order, then (user, request content); chat_history never
\* holds an entry of role system.
C10_MessageList ==
    /\ pc = "engine" =>
          /\ Len(m_llm.messages) =
                Len(m_chat_history) + (IF m_system_prompt # <<>> THEN 2 ELSE 1)
          /\ m_system_prompt # <<>> =>
                Head(m_llm.messages) = <<"system", m_system_prompt>>
          /\ \A i \in 1..Len(m_chat_history) :
                m_llm.messages[i + (IF m_system_prompt # <<>> THEN 1 ELSE 0)]
                   = m_chat_history[i]
          /\ Last(m_llm.messages) = <<"user", req.content>>
    /\ \A i \in 1..Len(m_chat_history) : m_chat_history[i][1] # "system"

\* the engine is called with a system prompt set and one earlier exchange
C10_Witness ==
    /\ pc = "engine"
    /\ m_system_prompt = P_X
    /\ Len(m_chat_history) = 2
    /\ Len(m_llm.messages) = 4


(***************************************************************************)
(* C11. Order of the completion of a chat request.                         *)
(***************************************************************************)
\* the positions of the diagnostics of cerr whose type member is type
LinesOfType(type) ==
    {i \in 1..Len(cerr) : Member(cerr[i], "type") = type}

\* the positions of the diagnostics of type status and status success
StreamDoneLines ==
    {i \in LinesOfType(S_status) : Member(cerr[i], "status") = S_success}

\* C11: of each chat request whose engine call has returned, the END marker
\* is written before its first diagnostic (while the stream is open the
\* status diagnostic of the request is not yet written), the diagnostic of
\* type status and status success is directly followed by the one of type
\* response, whose response member is the escaped captured response (absent
\* when the response is empty), and these two are its only diagnostics;
\* processing is false only when both diagnostics of every engine call made
\* have been written.
C11_CompletionOrder ==
    LET S == Cardinality(StreamDoneLines)
        R == Cardinality(LinesOfType(S_response))
    IN  /\ R <= S
        /\ S <= m_llm.responses
        /\ m_llm.responses <= S + 1
        /\ started => S = m_llm.responses - 1
        /\ ~m_processing => R = m_llm.responses
        /\ \A i \in LinesOfType(S_response) :
              /\ i - 1 \in StreamDoneLines
              /\ Member(cerr[i], "status") = S_success
        /\ \A i \in StreamDoneLines :
              i < Len(cerr) => i + 1 \in LinesOfType(S_response)
        /\ (R = m_llm.responses /\ R > 0) =>
              /\ Member(Last(cerr), "type") = S_response \/ ~m_processing
              /\ LET i == CHOOSE j \in LinesOfType(S_response) :
                              \A k \in LinesOfType(S_response) : k <= j
                 IN  Member(cerr[i], "response") = escapeJsonString(full_response)

\* the END marker of a chat request is written, its status diagnostic is,
\* its response diagnostic is not yet, and the request is still processing
C11_Witness ==
    /\ m_processing
    /\ m_llm.responses = 1
    /\ full_response # <<>>
    /\ Markers = <<STREAM_START, STREAM_END>>
    /\ Last(cerr) = StreamDoneLine


(***************************************************************************)
(* C12. The captured response.                                             *)
(***************************************************************************)
\* the position of the last START marker of the primary channel, 0 if none
LastStart ==
    IF \E i \in 1..Len(cout) : cout[i] = STREAM_START
    THEN CHOOSE i \in 1..Len(cout) :
             /\ cout[i] = STREAM_START
             /\ \A j \in (i + 1)..Len(cout) : cout[j] # STREAM_START
    ELSE 0

\* the bytes of the primary channel after the line of the last START marker,
\* up to its END marker when that is written
StreamBody ==
    SelectSeq(SubSeq(cout, LastStart + 2, Len(cout)),
              LAMBDA x : x # STREAM_END)

\* C12: every write of the engine, of one character or of a block, appends
\* the same bytes to the captured response and to the primary channel (after
\* the START line when they are the first); the captured response is what
\* stands between the last START and END lines, and it is the content of
\* the assistant entry that the completing handler appends to chat_history.
C12_CaptureIsVerbatim ==
    /\ [][(pc = "engine" /\ pc' = "engine") =>
            LET written == SubSeq(full_response', Len(full_response) + 1,
                                  Len(full_response'))
            IN  /\ full_response' = full_response \o written
                /\ cout' = cout
                      \o (IF written # <<>> /\ ~started
                          THEN <<STREAM_START, endl>> ELSE <<>>)
                      \o written]_vars
    /\ [][ChatCompletes =>
            /\ full_response' = full_response
            /\ Last(m_chat_history') = <<"assistant", full_response>>]_vars
    /\ [](full_response # <<>> =>
            StreamBody = IF pc = "engine" THEN full_response
                         ELSE full_response \o <<endl>>)

\* a chat request has completed whose engine call wrote one character and
\* then a block
C12_Witness ==
    /\ pc = "loop"
    /\ full_response = <<"a", "o", "k">>
    /\ m_chat_history = << <<"user", P_hi>>, <<"assistant", <<"a", "o", "k">>>> >>


(***************************************************************************)
(* C13. Nothing but the stream on the primary channel.                     *)
(***************************************************************************)
\* the bytes the engine can generate
GeneratedBytes == GenChars \cup UNION {{s[i] : i \in 1..Len(s)} : s \in GenBlocks}

\* the primary channel from position i on is a sequence of streams, each a
\* START line, generated bytes, and an END line unless it is still open
RECURSIVE StreamsFrom(_, _)
StreamsFrom(i, inside) ==
    IF i > Len(cout) THEN TRUE
    ELSE IF ~inside
         THEN /\ cout[i] = STREAM_START
              /\ i < Len(cout)
              /\ cout[i + 1] = endl
              /\ StreamsFrom(i + 2, TRUE)
    ELSE IF cout[i] = STREAM_END
         THEN /\ i < Len(cout)
              /\ cout[i + 1] = endl
              /\ StreamsFrom(i + 2, FALSE)
    ELSE /\ cout[i] \in GeneratedBytes
         /\ StreamsFrom(i + 1, TRUE)

Stopped == pc = "exited"

\* C14: the step that reads an exit request stops the service loop, writes
\* no diagnostic and nothing to the primary channel, and leaves system_prompt
\* and chat_history as they were; once the loop has stopped no line is read
\* or dispatched: the count of lines read, the line, the decoded request,
\* the session and both channels stay as they are.
C14_ExitStops ==
    /\ [][Dispatches(S_exit) =>
            /\ Stopped'
            /\ exit_code' = 0
            /\ UNCHANGED <<cerr, cout, m_system_prompt, m_chat_history, m_llm>>]_vars
    /\ [][Stopped =>
            UNCHANGED <<nread, request, req, m_system_prompt, m_chat_history,
                        m_llm, cout, cerr>>]_vars

\* an exit request was read as the second line, after a chat request
C14_Witness ==
    /\ Stopped
    /\ req.method = S_exit
    /\ request = L_exit
    /\ nread = 2
    /\ Len(m_chat_history) = 2

(***************************************************************************)
(* C15. An empty line.                                                     *)
(***************************************************************************)
\* the step reads an empty line that is not the end of input
ReadsEmptyLine ==
    /\ pc = "getline"
    /\ nread' = nread + 1
    /\ request' = <<>>

\* C15: the step that reads an empty line decodes and dispatches nothing
\* (the decoded request and the engine are as they were), writes to neither
\* channel, changes no session state, and leaves the loop running at its
\* top, from where the next line is read.
C15_EmptyLineIsNoOp ==
    /\ [][ReadsEmptyLine =>
            /\ UNCHANGED <<req, m_llm, cout, cerr, session, exit_code>>
            /\ m_running
            /\ pc' = "loop"]_vars
    /\ [][(pc = "loop" /\ m_running /\ request = <<>> /\ nread > 0) =>
            pc' = "getline"]_vars

\* three lines were read: an empty line, a system_prompt request, and a
\* chat request, which was dispatched with the system prompt in place
C15_Witness ==
    /\ pc = "engine"
    /\ nread = 3
    /\ m_system_prompt = P_X
    /\ m_llm.responses = 1
    /\ Len(cerr) = 2


(***************************************************************************)
(* C16. The loop reads the whole input and stops.                          *)
(***************************************************************************)
\* the step reads a non-empty line
ReadsLine ==
    /\ pc = "getline"
    /\ nread' = nread + 1
    /\ request' # <<>>

\* C16: the service loop eventually reaches Stopped; until then each step
\* that reads a non-empty line decodes that line and enters the branch of
\* its method, so the lines are dispatched once each, in the order read, and
\* the loop stops only at the end of input or at an exit request.
C16_AllLinesDispatched ==
    /\ [][ReadsLine =>
            /\ req' = parseRequest(request')
            /\ (req'.method = S_chat) = (m_processing' /\ ~Stopped')
            /\ Stopped' = (req'.method = S_exit)]_vars
    /\ [][(~Stopped /\ Stopped') =>
            \/ pc = "main"
            \/ pc = "getline" /\ (nread' = nread \/ req'.method = S_exit)]_vars
    /\ <>Stopped


(***************************************************************************)
(* C17. The members of an envelope.                                        *)
(***************************************************************************)
\* the call of function fn has returned
Returned(fn) == call.fn = fn /\ ret.returned

\* the keys of the envelope returned, in output order
Keys == [i \in 1..Len(ret.value) |-> ret.value[i].key]

\* the place of a key in the fixed order
KeyRank(key) ==
    CASE key = "type" -> 1 [] key = "status" -> 2 [] key = "message" -> 3
      [] key = "response" -> 4 [] key = "data" -> 5 [] key = "timestamp" -> 6

\* C17: an envelope returned by createStderrMessage has type as its first and
\* timestamp as its last member, has each of status, message, response and
\* data exactly when the argument of that name is not empty, and has its
\* members in the order type, status, message, response, data, timestamp;
\* built from message_type status and status ready alone it has exactly the
\* members type = status, status = ready and timestamp.
C17_EnvelopeFields ==
    Returned("createStderrMessage") =>
        /\ Head(Keys) = "type"
        /\ Last(Keys) = "timestamp"
        /\ \A i \in 1..Len(Keys) :
              Keys[i] \in {"type", "status", "message", "response", "data", "timestamp"}
        /\ \A i, j \in 1..Len(Keys) : i < j => KeyRank(Keys[i]) < KeyRank(Keys[j])
        /\ \A k \in 2..5 :
              (\E i \in 1..Len(Keys) : KeyRank(Keys[i]) = k) <=> (call.args[k] # <<>>)
        /\ call.args = <<S_status, S_ready, <<>>, <<>>, <<>>>> =>
              /\ Keys = <<"type", "status", "timestamp">>
              /\ ret.value[1].value = S_status
              /\ ret.value[2].value = S_ready

\* the envelope of message_type status and status ready has been built
C17_Witness ==
    /\ Returned("createStderrMessage")
    /\ call.args = <<S_status, S_ready, <<>>, <<>>, <<>>>>
    /\ Len(ret.value) = 3


(***************************************************************************)
(* C18. Escaped text read back by a JSON reader.                           *)
(***************************************************************************)
\* the value of a hexadecimal digit
HexDigitValue(c) == CHOOSE d \in 0..15 : HexDigit(d) = c

\* the bytes a JSON reader yields for the code point v < 0x100 of a \uXXXX
\* escape: the ASCII character itself, or the two bytes of its UTF-8 form
CodePointBytes(v) ==
    IF v < 128
    THEN <<CASE v = 0 -> NUL [] v = 8 -> BS [] v = 9 -> "\t" [] v = 10 -> "\n"
             [] v = 12 -> "\f" [] v = 13 -> "\r" [] v = 27 -> ESC
             [] v = 127 -> DEL [] OTHER -> "?">>
    ELSE <<IF v < 192 THEN "xC2" ELSE "xC3",
           "x" \o HexDigit(8 + ((v % 64) \div 16)) \o HexDigit(v % 16)>>

RECURSIVE JsonUnescape(_)
\* the string a JSON reader yields for the text s of a JSON string (RFC 8259,
\* section 7)
JsonUnescape(s) ==
    IF s = <<>> THEN <<>>
    ELSE IF Head(s) = BACKSLASH /\ Len(s) >= 2
         THEN IF s[2] = "u" /\ Len(s) >= 6
              THEN CodePointBytes(HexDigitValue(s[3]) * 4096 + HexDigitValue(s[4]) * 256
                                  + HexDigitValue(s[5]) * 16 + HexDigitValue(s[6]))
                   \o JsonUnescape(SubSeq(s, 7, Len(s)))
              ELSE <<CASE s[2] = "b" -> BS [] s[2] = "f" -> "\f" [] s[2] = "n" -> "\n"
                       [] s[2] = "r" -> "\r" [] s[2] = "t" -> "\t" [] OTHER -> s[2]>>
                   \o JsonUnescape(SubSeq(s, 3, Len(s)))
    ELSE <<Head(s)>> \o JsonUnescape(Tail(s))

\* c is a byte of the ASCII range, 0x00..0x7F
IsAscii(c) == c \notin NamedBytes \/ ByteValue(c) < 128

\* C18: for an input of ASCII-range bytes, quotes, backslashes, newlines and
\* the other control characters among them, the string a JSON reader yields
\* for escapeJsonString(input) is the input.
C18_EscapeRoundTrip ==
    (Returned("escapeJsonString")
        /\ \A i \in 1..Len(call.args[1]) : IsAscii(call.args[1][i])) =>
        JsonUnescape(ret.value) = call.args[1]

\* He said "hi"\nBye\ has been escaped to He said \"hi\"\nBye\\
C18_Witness ==
    /\ Returned("escapeJsonString")
    /\ call.args[1] = T_example
    /\ ret.value =
          <<"H", "e", " ", "s", "a", "i", "d", " ", "\\", "\"", "h", "i", "\\", "\"",
            "\\", "n", "B", "y", "e", "\\", "\\">>


(***************************************************************************)
(* C19. The escape of each byte.                                           *)
(***************************************************************************)
\* the bytes that must not stand as they are in a one-line JSON string
RawControls == {BS, "\f", "\n", "\r", "\t", NUL, ESC, x80, xE6, xFF}

\* what the mapping stated for one byte yields
EscapeOfByte(c) ==
    CASE c = QUOTE -> <<"\\", "\"">>
      [] c = BACKSLASH -> <<"\\", "\\">>
      [] c = BS -> <<"\\", "b">>
      [] c = "\f" -> <<"\\", "f">>
      [] c = "\n" -> <<"\\", "n">>
      [] c = "\r" -> <<"\\", "r">>
      [] c = "\t" -> <<"\\", "t">>
      [] OTHER ->
            IF c \in NamedBytes /\ (ByteValue(c) < 32 \/ ByteValue(c) > 127)
            THEN <<"\\", "u", "0", "0",
                   HexDigit(ByteValue(c) \div 16), HexDigit(ByteValue(c) % 16)>>
            ELSE <<c>>

\* C19: escapeJsonString returns the concatenation, byte by byte, of the
\* escapes stated: the two-character escapes of quote, backslash, backspace,
\* form feed, newline, carriage return and tab, \u00XX for any other byte
\* below 0x20 or above 0x7F, whether char is signed or not, and the byte
\* itself otherwise; what it returns holds no raw control byte and no quote
\* without a backslash before it, and no member of an envelope built from
\* type, status, message and response text holds a newline.
C19_ByteByByte ==
    /\ Returned("escapeJsonString") =>
          LET input == call.args[1]
          IN  /\ ret.value = Concat([i \in 1..Len(input) |-> EscapeOfByte(input[i])])
              /\ \A i \in 1..Len(input) :
                    input[i] \in NamedBytes =>
                       NeedsHexEscapeAs(input[i], TRUE) = NeedsHexEscapeAs(input[i], FALSE)
              /\ \A i \in 1..Len(ret.value) :
                    /\ ret.value[i] \notin RawControls
                    /\ ret.value[i] = QUOTE => (i > 1 /\ ret.value[i - 1] = BACKSLASH)
    /\ Returned("createStderrMessage") =>
          \A i \in 1..Len(ret.value) :
              ret.value[i].key # "data" =>
                 \A j \in 1..Len(ret.value[i].value) : ret.value[i].value[j] # endl

\* a string of a control byte and a byte above 0x7F has been escaped
C19_Witness ==
    /\ Returned("escapeJsonString")
    /\ call.args[1] = <<ESC, xE6>>
    /\ ret.value = <<"\\", "u", "0", "0", "1", "B", "\\", "u", "0", "0", "E", "6">>


(***************************************************************************)
(* C20. Field extraction from a malformed line.                            *)
(***************************************************************************)
\* the 1-based index after the first occurrence of "key" in line, 0 if none
AfterKey(line, key) ==
    LET quoted == <<QUOTE>> \o key \o <<QUOTE>>
        at == {i \in 1..(Len(line) - Len(quoted) + 1) :
                  SubSeq(line, i, i + Len(quoted) - 1) = quoted}
    IN  IF at = {} THEN 0
        ELSE (CHOOSE i \in at : \A j \in at : i <= j) + Len(quoted)

\* the 1-based index of the first character of the value of key in line:
\* after the first colon that follows the key and the blanks after it; 0 if
\* the key is absent or no colon follows it
ValueStart(line, key) ==
    LET from == AfterKey(line, key)
        colons == {i \in from..Len(line) : line[i] = ":"}
    IN  IF from = 0 \/ colons = {} THEN 0
        ELSE LET colon == CHOOSE i \in colons : \A j \in colons : i <= j
                 rest == {i \in (colon + 1)..Len(line) : line[i] \notin {" ", "\t"}}
             IN  IF rest = {} THEN Len(line) + 1
                 ELSE CHOOSE i \in rest : \A j \in rest : i <= j

\* the value of key in line opens with a quote that is never closed
UnclosedQuote(line, key) ==
    LET start == ValueStart(line, key)
    IN  /\ start > 0
        /\ start <= Len(line)
        /\ line[start] = QUOTE
        /\ ~\E i \in (start + 1)..Len(line) :
               line[i] = QUOTE /\ line[i - 1] # BACKSLASH

\* C20: extractValue returns for every line, and it returns the empty string
\* when the key is absent from the line, when no colon follows the key, and
\* when the value is malformed: a quoted value with no closing quote.
C20_ExtractionDegrades ==
    Returned("extractValue") =>
        LET line == call.args[1]
            key == call.args[2]
        IN  (ValueStart(line, key) = 0 \/ UnclosedQuote(line, key)) =>
                ret.value = <<>>


(***************************************************************************)
(* C21. The status request.                                                *)
(***************************************************************************)
\* C21: the step that reads a status request appends exactly one diagnostic,
\* of type status and status info, whose message is status: with the
\* processing flag as processing or idle, prompt_len: and gen_seq_len: with
\* the engine's two counters, and chat_history_count: with the length of
\* chat_history; it changes no session state, not the engine, and not the
\* primary channel.
C21_StatusReport ==
    [][Dispatches(S_status) =>
          /\ Len(cerr') = Len(cerr) + 1
          /\ SubSeq(cerr', 1, Len(cerr)) = cerr
          /\ Member(Last(cerr'), "type") = S_status
          /\ Member(Last(cerr'), "status") = S_info
          /\ Member(Last(cerr'), "message") =
                <<"s", "t", "a", "t", "u", "s", ":">>
                \o (IF m_processing THEN <<"p", "r", "o", "c", "e", "s", "s", "i", "n", "g">>
                    ELSE <<"i", "d", "l", "e">>)
                \o <<",", "p", "r", "o", "m", "p", "t", "_", "l", "e", "n", ":">>
                \o to_string(m_llm.prompt_len)
                \o <<",", "g", "e", "n", "_", "s", "e", "q", "_", "l", "e", "n", ":">>
                \o to_string(m_llm.gen_seq_len)
                \o <<",", "c", "h", "a", "t", "_", "h", "i", "s", "t", "o", "r", "y",
                     "_", "c", "o", "u", "n", "t", ":">>
                \o to_string(Len(m_chat_history))
          /\ UNCHANGED <<session, m_llm, cout>>]_vars

\* a status request was answered after a chat request that generated text
C21_Witness ==
    /\ pc = "loop"
    /\ req.method = S_status
    /\ Len(m_chat_history) = 2
    /\ m_llm.gen_seq_len > 0
    /\ Member(Last(cerr), "status") = S_info


(***************************************************************************)
(* C22. The processing flag.                                               *)
(***************************************************************************)
\* the statements of handleChatRequest after line 287
InChatHandler ==
    pc \in {"engine", "chat_history", "chat_status", "chat_response", "chat_idle"}

\* the positions of the diagnostics written by the status handler
StatusInfoLines ==
    {i \in LinesOfType(S_status) : Member(cerr[i], "status") = S_info}

\* s begins with p
StartsWith(s, p) == Len(s) >= Len(p) /\ SubSeq(s, 1, Len(p)) = p

\* C22: the processing flag is true exactly while a chat handler is
\* executing, so it is false wherever the loop tests its flag, reads a line
\* or has stopped; every diagnostic of the status handler reports idle and
\* none reports processing.
C22_ProcessingFlag ==
    /\ m_processing <=> InChatHandler
    /\ \A i \in StatusInfoLines :
          StartsWith(Member(cerr[i], "message"),
                     <<"s", "t", "a", "t", "u", "s", ":", "i", "d", "l", "e", ",">>)

\* a status request was answered, with idle, and the chat handler of the
\* next request is executing, its exchange appended, with the flag set
C22_Witness ==
    /\ StatusInfoLines # {}
    /\ Len(m_chat_history) = 2
    /\ pc = "chat_status"
    /\ m_processing


(***************************************************************************)
(* C23. stop() while the loop is active.                                   *)
(***************************************************************************)
\* C23: a stop() that clears the running flag while the loop is active
\* changes nothing but the flag. A chat handler in flight goes on to its
\* completion: from inside the handler the next step is again the handler's,
\* and when it is back at the top of the loop its exchange is in
\* chat_history and its response diagnostic is written. The flag is examined
\* at the top of the loop only: the loop is left from its top with the flag
\* false, or from getline by exit or the end of input, and a line that
\* arrives at a getline entered before the stop is still read. Once the flag
\* is examined as false the run ends with exit code 0 and no line is read or
\* dispatched: the count of lines read, the line, the decoded request, the
\* session and both channels are as they were.
C23_StopIsCooperative ==
    /\ [][(m_running /\ ~m_running' /\ pc' = pc) =>
              UNCHANGED <<pc, exit_code, m_processing, m_system_prompt, m_chat_history,
                          m_llm, request, req, chat_locals, cout, cerr, nread, nwrites>>]_vars
    /\ [][(InChatHandler /\ pc' # pc) => (InChatHandler' \/ pc' = "loop")]_vars
    /\ []((pc = "loop" /\ ~m_running /\ request # <<>> /\ req.method = S_chat) =>
             /\ Len(m_chat_history) >= 2
             /\ m_chat_history[Len(m_chat_history) - 1] = <<"user", req.content>>
             /\ Last(m_chat_history) = <<"assistant", full_response>>
             /\ Member(Last(cerr), "type") = S_response
             /\ ~m_processing)
    /\ [][(LoopActive /\ Stopped') =>
              \/ pc = "loop" /\ ~m_running
              \/ pc = "getline" /\ nread' = nread
              \/ pc = "getline" /\ req'.method = S_exit]_vars
    /\ [][(pc = "loop" /\ ~m_running) =>
              /\ Stopped'
              /\ exit_code' = 0
              /\ UNCHANGED <<nread, request, req, session, m_llm, cout, cerr>>]_vars

\* stop() was called while the one chat request read was being handled or
\* awaited; its handler completed (the exchange is stored, the response
\* diagnostic is the last line written) and the loop then ended at its top
\* without reading another line
C23_Witness ==
    /\ Stopped
    /\ ~m_running
    /\ nread = 1
    /\ request = L_chat
    /\ Len(m_chat_history) = 2
    /\ Member(Last(cerr), "type") = S_response


(***************************************************************************)
(* C24. Exit codes and the ready diagnostic.                               *)
(***************************************************************************)
\* the positions of the diagnostics of type status and status ready
ReadyLines ==
    {i \in LinesOfType(S_status) : Member(cerr[i], "status") = S_ready}

\* C24: the step that leaves main either ends the process with exit code 1,
\* no ready diagnostic and the loop never entered (missing argument, engine
\* not created, model not loaded), or enters the loop having written the
\* ready diagnostic as the first line of the diagnostic channel with no line
\* read yet. A process that has ended with code 1 has read no request,
\* called the engine never and written nothing to the primary channel. The
\* exit code is 0 only after the loop was entered and has stopped, by an
\* exit request or at the end of input. There is never more than one ready
\* diagnostic, and whenever a line has been read it is there, first.
C24_ExitCodes ==
    /\ [][(pc = "main" /\ pc' # "main") =>
              \/ /\ Stopped'
                 /\ exit_code' = 1
                 /\ ReadyLines' = {}
                 /\ ~m_running'
              \/ /\ pc' = "loop"
                 /\ m_running'
                 /\ cerr' = <<ReadyLine>>
                 /\ ReadyLines' = {1}
                 /\ nread' = 0]_vars
    /\ [](exit_code = 1 =>
             /\ Stopped
             /\ nread = 0
             /\ request = <<>>
             /\ m_llm.responses = 0
             /\ cout = <<>>
             /\ ReadyLines = {})
    /\ [](exit_code = 0 =>
             /\ Stopped
             /\ m_llm.created
             /\ ReadyLines = {1}
             /\ request = <<>> \/ req.method = S_exit)
    /\ [](Stopped => exit_code \in {0, 1})
    /\ [](ReadyLines \subseteq {1})
    /\ [](nread > 0 => ReadyLines = {1})

\* the model failed to load: the process has ended with code 1 after the
\* error diagnostic, with no ready diagnostic and no line read
C24_Witness ==
    /\ Stopped
    /\ exit_code = 1
    /\ m_llm.created
    /\ cerr[1] = LoadFailedLine
    /\ nread = 0


(***************************************************************************)
(* C25. Every diagnostic line is an envelope.                              *)
(***************************************************************************)
\* the line is a structured envelope with a type and a timestamp member
IsEnvelope(line) ==
    /\ line.text = <<>>
    /\ \E i \in 1..Len(line.fields) : line.fields[i].key = "type"
    /\ \E i \in 1..Len(line.fields) : line.fields[i].key = "timestamp"

\* C25: every line on the diagnostic channel is a structured envelope with
\* a type and a timestamp member, in the runs that end in main with exit
\* code 1 included, and such a run has reported its fatal error by exactly
\* one line.
C25_AllLinesAreEnvelopes ==
    /\ \A i \in 1..Len(cerr) : IsEnvelope(cerr[i])
    /\ (Stopped /\ exit_code = 1) => Len(cerr) = 1


(***************************************************************************)
(* C26. Every request is answered, in order.                               *)
(***************************************************************************)
\* C26: the step that reads a status, system_prompt, reset or unknown
\* request writes at least one diagnostic; the step that reads a chat request
\* either has written one or leaves its handler in flight, and the step that
\* completes a chat handler writes at least one. A line is read only from
\* getline, with no handler in flight, and neither channel is written
\* between the return of a handler and the next read, so the diagnostics of
\* a request precede those of every later request.
C26_EveryRequestAnswered ==
    /\ [][(ReadsLine /\ req'.method \notin {S_exit, S_chat}) =>
              Len(cerr') > Len(cerr)]_vars
    /\ [][(ReadsLine /\ req'.method = S_chat) =>
              (pc' = "engine" \/ Len(cerr') > Len(cerr))]_vars
    /\ [][ChatCompletes => Len(cerr') > Len(cerr)]_vars
    /\ [][nread' # nread => (pc = "getline" /\ ~m_processing)]_vars
    /\ [][(pc = "loop" /\ pc' = "getline") => UNCHANGED <<cout, cerr>>]_vars
    /\ [][Len(cerr') >= Len(cerr) /\ SubSeq(cerr', 1, Len(cerr)) = cerr]_vars


(***************************************************************************)
(* C27. Field extraction as a reference scan.                              *)
(***************************************************************************)
\* the least element of a non-empty set of numbers
Least(S) == CHOOSE i \in S : \A j \in S : i <= j

\* the text of the quoted value that opens at index start of line: up to the
\* first later quote that no backslash immediately precedes
QuotedText(line, start) ==
    LET closing == {i \in (start + 1)..Len(line) :
                       line[i] = QUOTE /\ line[i - 1] # BACKSLASH}
    IN  SubSeq(line, start + 1, Least(closing) - 1)

\* the text of the unquoted value that begins at index start of line: up to
\* the first comma, closing brace, closing bracket or space, or to the end of
\* the line
BareText(line, start) ==
    LET ends == {i \in start..Len(line) : line[i] \in {",", "}", "]", " "}}
    IN  SubSeq(line, start, Least(ends \cup {Len(line) + 1}) - 1)

\* C27: where the first occurrence of the quoted key in the line, wherever it
\* stands, is followed by a colon, extractValue returns the value found after
\* that colon and the spaces and tabs behind it: of a value that opens with
\* a quote and is closed, the text up to the first later quote not
\* immediately preceded by a backslash; of any other value the text up to
\* the first comma, closing brace, closing bracket or space. A later
\* occurrence of the key has no influence on the result.
C27_ReferenceScan ==
    Returned("extractValue") =>
        LET line == call.args[1]
            key == call.args[2]
            start == ValueStart(line, key)
            quoted == start <= Len(line) /\ line[start] = QUOTE
        IN  /\ (start > 0 /\ quoted /\ ~UnclosedQuote(line, key)) =>
                   ret.value = QuotedText(line, start)
            /\ (start > 0 /\ ~quoted) =>
                   ret.value = BareText(line, start)

\* extractValue has returned the value of type from an object whose type
\* value holds an escaped quote: the text up to the closing quote, the
\* backslash and the escaped quote in it
C27_Witness ==
    /\ Returned("extractValue")
    /\ call.args[1] =
          Object(<<Pair(S_type, Str(<<"a", BACKSLASH, QUOTE, "b">>)), Pair(S_id, <<"1">>)>>)
    /\ ret.value = <<"a", BACKSLASH, QUOTE, "b">>


(***************************************************************************)
(* C28. The payload of a request is selected by its method.                *)
(***************************************************************************)
\* the line holds the quoted key
HasKey(line, key) == AfterKey(line, key) # 0

\* C28: the request decoded from a line read has as content the prompt field
\* when its method is chat and the content field when its method is
\* system_prompt, has max_new_tokens as its one parameter when its method is
\* chat, and has empty content and no parameter for every other method. A
\* chat line without a prompt field is dispatched all the same: the engine
\* is called with an empty last user message, and the completion of a chat
\* handler adds two entries to chat_history, the first the user turn with
\* that content. A system_prompt line without a content field, its text in
\* prompt, is answered by the empty-content error and sets nothing.
C28_PayloadByMethod ==
    /\ [][ReadsLine =>
              /\ req'.method = S_chat =>
                    /\ req'.content = (IF HasKey(request', S_prompt)
                                       THEN extractValue(request', S_prompt) ELSE <<>>)
                    /\ req'.params = {<<S_max_new_tokens,
                                        extractValue(request', S_max_new_tokens)>>}
              /\ req'.method = S_system_prompt =>
                    /\ req'.content = (IF HasKey(request', S_content)
                                       THEN extractValue(request', S_content) ELSE <<>>)
                    /\ req'.params = {}
              /\ req'.method \notin {S_chat, S_system_prompt} =>
                    /\ req'.content = <<>>
                    /\ req'.params = {}]_vars
    /\ [][(ReadsLine /\ req'.method = S_chat /\ ~HasKey(request', S_prompt)
              /\ ~HasKey(request', S_max_new_tokens)) =>
              /\ pc' = "engine"
              /\ m_llm'.responses = m_llm.responses + 1
              /\ Last(m_llm'.messages) = <<"user", <<>>>>]_vars
    /\ [][ChatCompletes =>
              /\ Len(m_chat_history') = Len(m_chat_history) + 2
              /\ m_chat_history'[Len(m_chat_history) + 1] = <<"user", req.content>>]_vars
    /\ [][(ReadsLine /\ req'.method = S_system_prompt /\ ~HasKey(request', S_content)) =>
              /\ cerr' = Append(cerr, PromptEmptyLine)
              /\ m_system_prompt' = m_system_prompt
              /\ pc' = "loop"]_vars

\* a chat line without a prompt has been handled to its end, the exchange
\* with the empty user turn is stored, and the system_prompt line with its
\* text in prompt has then been answered by the error
C28_Witness ==
    /\ pc = "loop"
    /\ request = L_system_prompt_in_prompt
    /\ req.content = <<>>
    /\ Last(cerr) = PromptEmptyLine
    /\ Len(m_chat_history) = 2
    /\ m_chat_history[1] = <<"user", <<>>>>
    /\ m_system_prompt = <<>>


(***************************************************************************)
(* C29. The shape of chat_history.                                         *)
(***************************************************************************)
\* C29: in every state the roles of chat_history alternate, user at the odd
\* and assistant at the even positions. A step that changes chat_history is
\* either taken by a chat handler and extends it at its end, the earlier
\* value a proper prefix of the later, or is the step that reads a reset
\* request and empties it; no other request changes it.
C29_HistoryShape ==
    /\ [](\A i \in 1..Len(m_chat_history) :
             m_chat_history[i][1] = (IF i % 2 = 1 THEN "user" ELSE "assistant"))
    /\ [][m_chat_history' # m_chat_history =>
              \/ /\ req.method = S_chat
                 /\ m_processing
                 /\ req' = req
                 /\ Len(m_chat_history') > Len(m_chat_history)
                 /\ SubSeq(m_chat_history', 1, Len(m_chat_history)) = m_chat_history
              \/ /\ Dispatches(S_reset)
                 /\ m_chat_history' = <<>>]_vars

\* the second chat request of a session has stored its exchange after the
\* first one's
C29_Witness ==
    /\ pc = "chat_status"
    /\ Len(m_chat_history) = 4
    /\ m_chat_history[3] = <<"user", P_hi>>
    /\ m_chat_history[4][1] = "assistant"


(***************************************************************************)
(* C30. Each stream marker is a line of its own.                           *)
(***************************************************************************)
\* C30: every START and END marker on the primary channel begins a line (it
\* is the first thing written or directly follows a newline) and is directly
\* followed by a newline, whatever text was generated.
C30_MarkersOnOwnLines ==
    \A i \in 1..Len(cout) :
        IsMarker(cout[i]) =>
            /\ i = 1 \/ cout[i - 1] = endl
            /\ i < Len(cout)
            /\ cout[i + 1] = endl

=============================================================================
